---------------------------- MODULE Spec2Model ----------------------------
(***************************************************************************)
(* Model of the pspdecrypt Python extension module                         *)
(* (src/pspdecrypt_python.cpp): the seven entry points registered by       *)
(* PYBIND11_MODULE, the two function-local static kirk_initialized flags,  *)
(* and the calls each entry point makes into the decryption library        *)
(* (kirk_init, pspDecryptPRX, pspIsCompressed, pspDecompress,              *)
(* pspDecryptIPL1, pspLinearizeIPL2, pspDecryptIPL3).                      *)
(*                                                                         *)
(* Byte buffers are abstracted to what the binding looks at: their length, *)
(* the two header size fields, and whether their first bytes are a         *)
(* compression magic.  The library functions are declared in               *)
(* pspdecrypt_lib.h / PrxDecrypter.h, which the binding includes; their    *)
(* results are chosen nondeterministically inside the range their          *)
(* contract allows.                                                        *)
(*                                                                         *)
(* u32 values are pairs <<hi, lo>> of 16-bit halves, because the model     *)
(* checker's integers stop at 2^31 - 1; the arithmetic on them is exact    *)
(* arithmetic modulo 2^32.                                                 *)
(***************************************************************************)
EXTENDS Integers, Sequences, FiniteSets, TLC

VARIABLES
    kirk_initialized_prx,   \* static bool kirk_initialized of decrypt_prx
    kirk_initialized_ipl1,  \* static bool kirk_initialized of decrypt_ipl1
    kirk_init_calls,        \* how many times kirk_init() has run in the process
    kirk_init_by,           \* the threads that have run kirk_init()
    gil,                    \* the set (empty or one thread) holding the interpreter lock
    frame                   \* per thread: the frame of its current call

vars == <<kirk_initialized_prx, kirk_initialized_ipl1, kirk_init_calls,
          kirk_init_by, gil, frame>>

---------------------------------------------------------------------------
(* Bounds of the model.                                                    *)

NumThreads == 2
\* How many bytes beyond the header a full-size PRX sample carries.
ExtraLen == 64
\* The length of the one very long input sample: ten times it passes 2^32.
HugeLen == 429496730

Threads == 1..NumThreads

---------------------------------------------------------------------------
(* u32 arithmetic on <<hi, lo>> pairs.                                     *)

Half == 256 * 256

U32(hi, lo) == <<hi, lo>>

\* A natural number below 2^31 as a u32.
U32FromNat(n) == <<n \div Half, n % Half>>

\* int -> u32 conversion (two's complement for negatives), |i| < 2^31.
IntToU32(i) ==
    IF i >= 0 THEN U32FromNat(i)
    ELSE LET m == i + 2147483647 + 1     \* i + 2^31, in 0 .. 2^31 - 1
         IN  <<(m \div Half) + 32768, m % Half>>

\* Defined for values below 2^31 only.
FitsInt(x) == x[1] < 32768
U32ToNat(x) == x[1] * Half + x[2]

U32Less(x, y) == x[1] < y[1] \/ (x[1] = y[1] /\ x[2] < y[2])
U32Leq(x, y) == x = y \/ U32Less(x, y)
U32Max(x, y) == IF U32Less(x, y) THEN y ELSE x

\* x + k modulo 2^32, for 0 <= k < 65536.
U32AddSmall(x, k) ==
    LET lo == x[2] + k
    IN  <<(x[1] + lo \div Half) % Half, lo % Half>>

\* x * k modulo 2^32, for 0 <= k <= 16.
U32MulSmall(x, k) ==
    LET lo == x[2] * k
    IN  <<(x[1] * k + lo \div Half) % Half, lo % Half>>

\* x / 16 (unsigned integer division).
U32Div16(x) == <<x[1] \div 16, (x[1] % 16) * 4096 + x[2] \div 16>>

U32Mod16(x) == x[2] % 16

U32Zero == U32(0, 0)

---------------------------------------------------------------------------
(* Program constants and error messages.                                   *)

PSP_HEADER_SIZE == 336      \* 0x150
SECURE_ID_SIZE == 16
SNIFF_BYTES == 4
DEFAULT_MAX_SIZE == -1
BLOCK == 16

ErrTooSmall == "Input data is too small (< 0x150 bytes)"
ErrSecureId == "Secure ID must be exactly 16 bytes"
ErrPrxFailed == "PRX decryption failed"

NoSecureId == -1            \* secure_id_obj is None

ErrIpl1Failed == "IPL stage 1 decryption failed"
ErrIpl2Failed == "IPL stage 2 linearization failed"
ErrIpl3Failed == "IPL stage 3 decryption failed"
ErrNotCompressed == "Input data is not compressed"
ErrDecompress == "Decompression failed: "
ErrOpen == "Could not open file: "
ErrFileSize == "Could not determine file size"
ErrRead == "Could not read entire file"
\* std::out_of_range thrown by std::string::substr(pos) when pos > size().
ErrOutOfRange == "basic_string::substr"
\* pybind11's failure when py::bytes is built with a negative length.
ErrBytes == "Could not allocate bytes object!"

---------------------------------------------------------------------------
(* Inputs.  A byte string is abstracted to its length, the psp_size and    *)
(* elf_size header fields (present only when the string holds a whole      *)
(* header) and whether its leading bytes are a compression magic.          *)

Bytes(len, psp, elf, magic) ==
    [len |-> len, psp_size |-> psp, elf_size |-> elf, magic |-> magic]

FullLen == PSP_HEADER_SIZE + ExtraLen

ShortSamples ==
    { Bytes(0, U32Zero, U32Zero, FALSE) }
    \cup { Bytes(n, U32Zero, U32Zero, m) :
             n \in {2, SNIFF_BYTES, PSP_HEADER_SIZE - 1}, m \in BOOLEAN }

FullSamples ==
    { \* compressed payload: expands to twice the file size
      Bytes(FullLen, U32FromNat(FullLen), U32FromNat(2 * FullLen), FALSE),
      \* plain payload, size not a multiple of the cipher block
      Bytes(FullLen, U32FromNat(FullLen - 7), U32FromNat(200), FALSE),
      \* header sizes at the top of the u32 range
      Bytes(FullLen, U32(65535, 65521), U32Zero, FALSE),
      Bytes(FullLen, U32Zero, U32(65535, 65535), FALSE),
      \* a compressed blob as long as a PRX
      Bytes(FullLen, U32FromNat(FullLen), U32FromNat(2 * FullLen), TRUE),
      \* a header and nothing else
      Bytes(PSP_HEADER_SIZE, U32FromNat(PSP_HEADER_SIZE), U32FromNat(200), FALSE),
      \* a very long compressed blob
      Bytes(HugeLen, U32FromNat(FullLen), U32FromNat(2 * FullLen), TRUE) }

DataSamples == ShortSamples \cup FullSamples

SecureIdLens == {NoSecureId, SECURE_ID_SIZE, SECURE_ID_SIZE - 1}
MaxSizes == {DEFAULT_MAX_SIZE, 0, 1, 64}
FileStates == {"ok", "no_open", "no_size", "short_read"}

Entries == {"decrypt_prx", "decrypt_prx_file", "get_prx_info", "decrypt_ipl1",
            "linearize_ipl2", "decrypt_ipl3", "decompress"}

NoOutcome == [kind |-> "none", err |-> "", len |-> 0, buf |-> "none", extra |-> <<>>]
NoMemo == [prx |-> <<>>, dec |-> <<>>, ipl |-> <<>>]
\* What a caller keeps of a finished call: its arguments, what the sniff
\* answered and what came back.
NoPrev ==
    [entry |-> "none", secure_id_len |-> NoSecureId, verbose |-> FALSE,
     max_size |-> DEFAULT_MAX_SIZE, file |-> "ok", compressed |-> FALSE,
     prims |-> <<>>, outcome |-> NoOutcome]

IdleFrame ==
    [pc |-> "idle", entry |-> "none",
     \* arguments
     data |-> Bytes(0, U32Zero, U32Zero, FALSE),
     secure_id_len |-> NoSecureId, verbose |-> FALSE,
     max_size |-> DEFAULT_MAX_SIZE, file |-> "ok",
     \* locals
     input_size |-> U32Zero, secure_id_ptr |-> FALSE,
     psp_size |-> U32Zero, elf_size |-> U32Zero,
     output_capacity |-> U32Zero, output_size |-> 0,
     decompressed_size |-> 0, log_empty |-> TRUE, start_addr |-> 0,
     buffer |-> "none", buffer_size |-> U32Zero, compressed |-> FALSE,
     \* what the call has done so far
     fields_read |-> {}, allocated |-> {}, prims |-> <<>>,
     oob_read |-> FALSE, kirk_ready |-> <<>>,
     file_opens |-> 0, file_reads |-> 0, printed |-> FALSE,
     \* an archive walk: the table of contents and the per-entry results
     table |-> <<>>, results |-> <<>>,
     memo |-> NoMemo, prev |-> NoPrev,
     outcome |-> NoOutcome]

\* throw std::runtime_error(err): the call ends with the exception.
Raise(f, e) ==
    [f EXCEPT !.pc = "done",
              !.outcome = [kind |-> "error", err |-> e, len |-> 0, buf |-> "none",
                           extra |-> <<>>]]

\* py::bytes(buffer.data(), n): n is converted to size_t; a negative n is
\* refused by the interpreter.
ReturnBytes(f, n) ==
    IF n < 0 THEN Raise(f, ErrBytes)
    ELSE [f EXCEPT !.pc = "done",
                   !.outcome = [kind |-> "bytes", err |-> "", len |-> n,
                                buf |-> f.buffer, extra |-> <<>>]]

\* The call of primitive p is appended to the frame's call log, with whether
\* kirk_init had completed by then.
Invoke(f, p) ==
    [f EXCEPT !.prims = Append(@, p),
              !.kirk_ready = Append(@, kirk_init_calls > 0)]

---------------------------------------------------------------------------
(* The decryption library, seen from the binding.                          *)

\* kirk_init(): loads the key table into process-wide state.
KirkInit(t) ==
    /\ kirk_init_calls' = kirk_init_calls + 1
    /\ kirk_init_by' = kirk_init_by \cup {t}

\* The lengths a library function is sampled to report.
RetSamples == {0, SNIFF_BYTES - 1, ExtraLen}

\* int pspDecryptPRX(in, out, size, seed, verbose): a negative value on
\* failure, else the length of the decrypted image, which the header bounds.
PrxRetValues(f) ==
    {-1} \cup { n \in RetSamples :
                  U32Leq(U32FromNat(n), U32Max(f.data.psp_size, f.data.elf_size)) }

\* Why pspDecryptPRX can fail: the tag has no key-table entry, the entry
\* wants a secure ID and none was given, the secure ID given is not the one
\* the file was made for, or the ciphertext does not decrypt.
FailureKinds ==
    {"UnknownTag", "SecureIdRequired", "SecureIdMismatch", "DecryptionFailed"}

\* The failure kinds open to a call that did (seed) or did not pass a secure ID.
PrxFailureKinds(seed) ==
    FailureKinds \ (IF seed THEN {"SecureIdRequired"} ELSE {"SecureIdMismatch"})

\* <<result, decrypted image starts with a compression magic, failure kind>>.
\* The library is deterministic: the same bytes and secure ID give the same
\* result.  A failure of any kind is reported as a negative result.
PrxResults(f) ==
    IF f.memo.prx # <<>> /\ f.memo.prx[1] = f.secure_id_ptr
    THEN { <<f.memo.prx[2], f.memo.prx[3], f.memo.prx[4]>> }
    ELSE { <<r, m, k>> \in PrxRetValues(f) \X BOOLEAN
                               \X ({"none"} \cup PrxFailureKinds(f.secure_id_ptr)) :
             /\ m => r >= SNIFF_BYTES
             /\ k = "none" <=> r >= 0 }

\* int pspDecompress(in, insize, out, outcapacity, logStr): a negative value
\* on failure, else the number of bytes written, never above outcapacity.
DecompressRetValues(cap) ==
    {-1} \cup { n \in {ExtraLen} : U32Leq(U32FromNat(n), cap) }
         \cup (IF FitsInt(cap) THEN {U32ToNat(cap)} ELSE {})

\* <<result, logStr left empty>> of decompressing the image `key` names.
DecompressResults(f, key, cap) ==
    IF f.memo.dec # <<>> /\ f.memo.dec[1] = key
    THEN { <<f.memo.dec[2], f.memo.dec[3]>> }
    ELSE DecompressRetValues(cap) \X BOOLEAN

---------------------------------------------------------------------------
(* decrypt_prx(data, secure_id, verbose)                                   *)

\* output_capacity = ((max(psp_size, elf_size) + 15) / 16) * 16, in u32.
AlignedCapacity(psp_size, elf_size) ==
    U32MulSmall(U32Div16(U32AddSmall(U32Max(psp_size, elf_size), BLOCK - 1)), BLOCK)

\* Lines 26-30: the static flag guards kirk_init().
PrxKirkInit(t) ==
    /\ gil = {t}
    /\ frame[t].pc = "prx_init"
    /\ IF ~kirk_initialized_prx
       THEN KirkInit(t) /\ kirk_initialized_prx' = TRUE
       ELSE UNCHANGED <<kirk_init_calls, kirk_init_by, kirk_initialized_prx>>
    /\ frame' = [frame EXCEPT ![t].pc = "prx_validate"]
    /\ UNCHANGED <<kirk_initialized_ipl1, gil>>

\* A header check that lets an input one byte short of a header through.
TooSmallOffByOne(input_size) ==
    U32Less(input_size, U32FromNat(PSP_HEADER_SIZE - 1))

\* The test of lines 37 and 130.
TooSmall(input_size) == U32Less(input_size, U32FromNat(PSP_HEADER_SIZE))

\* Lines 33-39.
PrxValidate(t) ==
    /\ gil = {t}
    /\ frame[t].pc = "prx_validate"
    /\ LET f == [frame[t] EXCEPT !.input_size = U32FromNat(frame[t].data.len)]
       IN  frame' = [frame EXCEPT ![t] =
                IF TooSmall(f.input_size) THEN Raise(f, ErrTooSmall)
                ELSE [f EXCEPT !.pc = "prx_secure_id"]]
    /\ UNCHANGED <<kirk_initialized_prx, kirk_initialized_ipl1,
                   kirk_init_calls, kirk_init_by, gil>>

\* A length test that refuses only a secure ID longer than 16 bytes.
WrongSecureIdSizeIfLonger(size) == size > SECURE_ID_SIZE

\* The test of line 48.
WrongSecureIdSize(size) == size # SECURE_ID_SIZE

\* Lines 42-53.
PrxSecureId(t) ==
    /\ gil = {t}
    /\ frame[t].pc = "prx_secure_id"
    /\ LET f == frame[t]
       IN  frame' = [frame EXCEPT ![t] =
                IF f.secure_id_len = NoSecureId
                THEN [f EXCEPT !.pc = "prx_sizes", !.secure_id_ptr = FALSE]
                ELSE IF WrongSecureIdSize(f.secure_id_len)
                THEN Raise(f, ErrSecureId)
                ELSE [f EXCEPT !.pc = "prx_sizes", !.secure_id_ptr = TRUE]]
    /\ UNCHANGED <<kirk_initialized_prx, kirk_initialized_ipl1,
                   kirk_init_calls, kirk_init_by, gil>>

\* Lines 56-62.
PrxSizes(t) ==
    /\ gil = {t}
    /\ frame[t].pc = "prx_sizes"
    /\ LET f == frame[t]
           cap == AlignedCapacity(f.data.psp_size, f.data.elf_size)
       IN  frame' = [frame EXCEPT ![t] =
                [f EXCEPT !.pc = "prx_decrypt",
                          !.fields_read = @ \cup {"psp_size", "elf_size"},
                          !.psp_size = f.data.psp_size,
                          !.elf_size = f.data.elf_size,
                          !.output_capacity = cap,
                          !.allocated = @ \cup {"output_buffer"},
                          !.buffer = "output_buffer",
                          !.buffer_size = cap]]
    /\ UNCHANGED <<kirk_initialized_prx, kirk_initialized_ipl1,
                   kirk_init_calls, kirk_init_by, gil>>

\* Line 65.
PrxDecrypt(t) ==
    /\ gil = {t}
    /\ frame[t].pc = "prx_decrypt"
    /\ \E res \in PrxResults(frame[t]) :
          LET f == Invoke(frame[t], "pspDecryptPRX")
              same == f.memo.prx = <<f.secure_id_ptr, res[1], res[2], res[3]>>
          IN  frame' = [frame EXCEPT ![t] =
                [f EXCEPT !.pc = "prx_check",
                          !.output_size = res[1],
                          !.compressed = res[2],
                          !.memo.prx = <<f.secure_id_ptr, res[1], res[2], res[3]>>,
                          !.memo.dec = IF same THEN @ ELSE <<>>]]
    /\ UNCHANGED <<kirk_initialized_prx, kirk_initialized_ipl1,
                   kirk_init_calls, kirk_init_by, gil>>

\* The test of line 67.
PrxFailed(output_size) == output_size < 0

\* A check that, on a first failure, calls pspDecryptPRX once more.
PrxCheckRetrying(t) ==
    /\ gil = {t}
    /\ frame[t].pc = "prx_check"
    /\ LET f == frame[t]
       IN  frame' = [frame EXCEPT ![t] =
                IF PrxFailed(f.output_size) /\ Len(f.prims) < 2
                THEN [f EXCEPT !.pc = "prx_decrypt"]
                ELSE IF PrxFailed(f.output_size) THEN Raise(f, ErrPrxFailed)
                ELSE [f EXCEPT !.pc = "prx_sniff"]]
    /\ UNCHANGED <<kirk_initialized_prx, kirk_initialized_ipl1,
                   kirk_init_calls, kirk_init_by, gil>>

\* Lines 67-69.
PrxCheck(t) ==
    /\ gil = {t}
    /\ frame[t].pc = "prx_check"
    /\ LET f == frame[t]
       IN  frame' = [frame EXCEPT ![t] =
                IF PrxFailed(f.output_size) THEN Raise(f, ErrPrxFailed)
                ELSE [f EXCEPT !.pc = "prx_sniff"]]
    /\ UNCHANGED <<kirk_initialized_prx, kirk_initialized_ipl1,
                   kirk_init_calls, kirk_init_by, gil>>

\* A sniff whose answer is not looked at: any image of 4 bytes or more is
\* handed to the decoder.
PrxSniffAssumingCompressed(t) ==
    /\ gil = {t}
    /\ frame[t].pc = "prx_sniff"
    /\ LET f == frame[t]
       IN  frame' = [frame EXCEPT ![t] =
                IF f.output_size >= SNIFF_BYTES
                THEN [Invoke(f, "pspIsCompressed") EXCEPT !.pc = "prx_decompress"]
                ELSE [f EXCEPT !.pc = "prx_return"]]
    /\ UNCHANGED <<kirk_initialized_prx, kirk_initialized_ipl1,
                   kirk_init_calls, kirk_init_by, gil>>

\* Line 72: pspIsCompressed reads the first SNIFF_BYTES bytes of the buffer;
\* the && keeps it from running on fewer than 4 decrypted bytes.
PrxSniff(t) ==
    /\ gil = {t}
    /\ frame[t].pc = "prx_sniff"
    /\ LET f == frame[t]
       IN  frame' = [frame EXCEPT ![t] =
                IF f.output_size >= SNIFF_BYTES
                THEN LET g == Invoke(f, "pspIsCompressed")
                     IN  [g EXCEPT !.pc = IF f.compressed THEN "prx_decompress"
                                                          ELSE "prx_return"]
                ELSE [f EXCEPT !.pc = "prx_return"]]
    /\ UNCHANGED <<kirk_initialized_prx, kirk_initialized_ipl1,
                   kirk_init_calls, kirk_init_by, gil>>

\* Lines 73-76.
PrxDecompress(t) ==
    /\ gil = {t}
    /\ frame[t].pc = "prx_decompress"
    /\ \E res \in DecompressResults(frame[t], <<"prx", frame[t].secure_id_ptr, frame[t].elf_size>>,
                                   frame[t].elf_size) :
          LET f == Invoke(frame[t], "pspDecompress")
          IN  frame' = [frame EXCEPT ![t] =
                [f EXCEPT !.pc = "prx_compare",
                          !.allocated = @ \cup {"temp_buffer"},
                          !.decompressed_size = res[1],
                          !.log_empty = res[2],
                          !.memo.dec = <<<<"prx", f.secure_id_ptr, f.elf_size>>,
                                         res[1], res[2]>>]]
    /\ UNCHANGED <<kirk_initialized_prx, kirk_initialized_ipl1,
                   kirk_init_calls, kirk_init_by, gil>>

\* The test of line 78: int == u32 compares after converting the int to u32.
SizeMatches(decompressed_size, elf_size) == IntToU32(decompressed_size) = elf_size

\* py::print(label, log_str.substr(1)): substr(1) throws std::out_of_range on
\* an empty string.
PrintLog(f, next) ==
    IF f.log_empty THEN Raise(f, ErrOutOfRange)
    ELSE [f EXCEPT !.pc = next, !.printed = TRUE]

\* if (verbose && !log_str.empty()) py::print(label, log_str.substr(1));
PrintLogIfAny(f) ==
    IF f.verbose /\ ~f.log_empty THEN PrintLog(f, f.pc) ELSE f

\* Lines 78-86.
PrxCompare(t) ==
    /\ gil = {t}
    /\ frame[t].pc = "prx_compare"
    /\ LET f == frame[t]
           g == IF SizeMatches(f.decompressed_size, f.elf_size)
                THEN [f EXCEPT !.output_size = f.decompressed_size,
                               !.buffer = "temp_buffer",
                               !.buffer_size = f.elf_size]
                ELSE f
       IN  frame' = [frame EXCEPT ![t] =
                IF f.verbose THEN PrintLog(g, "prx_return")
                ELSE [g EXCEPT !.pc = "prx_return"]]
    /\ UNCHANGED <<kirk_initialized_prx, kirk_initialized_ipl1,
                   kirk_init_calls, kirk_init_by, gil>>

\* Line 90.
PrxReturn(t) ==
    /\ gil = {t}
    /\ frame[t].pc = "prx_return"
    /\ frame' = [frame EXCEPT ![t] = ReturnBytes(frame[t], frame[t].output_size)]
    /\ UNCHANGED <<kirk_initialized_prx, kirk_initialized_ipl1,
                   kirk_init_calls, kirk_init_by, gil>>

---------------------------------------------------------------------------
(* decrypt_prx_file(filename, secure_id, verbose)                          *)

\* Lines 96-99.
FileOpen(t) ==
    /\ gil = {t}
    /\ frame[t].pc = "file_open"
    /\ LET f == frame[t]
       IN  frame' = [frame EXCEPT ![t] =
                IF f.file = "no_open" THEN Raise(f, ErrOpen)
                ELSE [f EXCEPT !.pc = "file_size", !.file_opens = @ + 1]]
    /\ UNCHANGED <<kirk_initialized_prx, kirk_initialized_ipl1,
                   kirk_init_calls, kirk_init_by, gil>>

\* Lines 102-109.
FileSize(t) ==
    /\ gil = {t}
    /\ frame[t].pc = "file_size"
    /\ LET f == frame[t]
       IN  frame' = [frame EXCEPT ![t] =
                IF f.file = "no_size" THEN Raise(f, ErrFileSize)
                ELSE [f EXCEPT !.pc = "file_read"]]
    /\ UNCHANGED <<kirk_initialized_prx, kirk_initialized_ipl1,
                   kirk_init_calls, kirk_init_by, gil>>

\* A read that hands decrypt_prx whatever it got, short or not.
FileReadAcceptingShort(t) ==
    /\ gil = {t}
    /\ frame[t].pc = "file_read"
    /\ frame' = [frame EXCEPT ![t] =
            [frame[t] EXCEPT !.pc = "prx_init", !.file_reads = @ + 1,
                             !.allocated = @ \cup {"file_data"}]]
    /\ UNCHANGED <<kirk_initialized_prx, kirk_initialized_ipl1,
                   kirk_init_calls, kirk_init_by, gil>>

\* Lines 112-122: one fread of the whole file, then decrypt_prx on its bytes.
FileRead(t) ==
    /\ gil = {t}
    /\ frame[t].pc = "file_read"
    /\ LET f == [frame[t] EXCEPT !.file_reads = @ + 1,
                                 !.allocated = @ \cup {"file_data"}]
       IN  frame' = [frame EXCEPT ![t] =
                IF f.file = "short_read" THEN Raise(f, ErrRead)
                ELSE [f EXCEPT !.pc = "prx_init"]]
    /\ UNCHANGED <<kirk_initialized_prx, kirk_initialized_ipl1,
                   kirk_init_calls, kirk_init_by, gil>>

---------------------------------------------------------------------------
(* get_prx_info(data)                                                      *)

\* A get_prx_info that begins, as decrypt_prx does, by initializing KIRK.
InfoValidateAfterKirkInit(t) ==
    /\ gil = {t}
    /\ frame[t].pc = "info_validate"
    /\ KirkInit(t)
    /\ kirk_initialized_prx' = TRUE
    /\ frame' = [frame EXCEPT ![t] =
            IF TooSmall(U32FromNat(frame[t].data.len))
            THEN Raise(frame[t], ErrTooSmall)
            ELSE [frame[t] EXCEPT !.pc = "info_parse"]]
    /\ UNCHANGED <<kirk_initialized_ipl1, gil>>

\* Lines 127-132.
InfoValidate(t) ==
    /\ gil = {t}
    /\ frame[t].pc = "info_validate"
    /\ LET f == [frame[t] EXCEPT !.input_size = U32FromNat(frame[t].data.len)]
       IN  frame' = [frame EXCEPT ![t] =
                IF TooSmall(f.input_size) THEN Raise(f, ErrTooSmall)
                ELSE [f EXCEPT !.pc = "info_parse"]]
    /\ UNCHANGED <<kirk_initialized_prx, kirk_initialized_ipl1,
                   kirk_init_calls, kirk_init_by, gil>>

\* Lines 134-141: is_compressed is the sniff of the input's own first bytes.
InfoParse(t) ==
    /\ gil = {t}
    /\ frame[t].pc = "info_parse"
    /\ LET f == Invoke(frame[t], "pspIsCompressed")
       IN  frame' = [frame EXCEPT ![t] =
                [f EXCEPT !.pc = "done",
                          !.fields_read = @ \cup {"tag", "elf_size", "psp_size",
                                                  "comp_size"},
                          !.psp_size = f.data.psp_size,
                          !.elf_size = f.data.elf_size,
                          !.compressed = f.data.magic,
                          !.outcome = [kind |-> "dict", err |-> "", len |-> 0,
                                       buf |-> "none",
                                       extra |-> <<f.data.elf_size, f.data.psp_size,
                                                   f.data.magic>>]]]
    /\ UNCHANGED <<kirk_initialized_prx, kirk_initialized_ipl1,
                   kirk_init_calls, kirk_init_by, gil>>

---------------------------------------------------------------------------
(* decrypt_ipl1, linearize_ipl2, decrypt_ipl3                              *)

\* int pspDecryptIPL1 / pspLinearizeIPL2 / pspDecryptIPL3(in, out, size, ..):
\* a value <= 0 on failure, else the number of bytes written, which the
\* input length bounds.
IplRetValues(len) == {-1} \cup { n \in RetSamples \cup {len} : n <= len }

StartAddrs == {0, 1024}

\* <<result, logStr left empty, start address>> of stage `stage` on the input.
IplResults(f, stage) ==
    IF f.memo.ipl # <<>> /\ f.memo.ipl[1] = stage
    THEN { <<f.memo.ipl[2], f.memo.ipl[3], f.memo.ipl[4]>> }
    ELSE { <<r, e, a>> \in IplRetValues(f.data.len) \X BOOLEAN \X StartAddrs :
             /\ (stage # "pspDecryptIPL1" => e)
             /\ (a # 0 => stage = "pspLinearizeIPL2" /\ r > 0) }

\* The stage call: lines 153-160, 175-182, 194-200.
IplStage(f, stage, res, next) ==
    LET g == Invoke(f, stage)
    IN  [g EXCEPT !.pc = next,
                  !.input_size = U32FromNat(f.data.len),
                  !.allocated = @ \cup {"output_buffer"},
                  !.buffer = "output_buffer",
                  !.buffer_size = U32FromNat(f.data.len),
                  !.output_size = res[1],
                  !.log_empty = res[2],
                  !.start_addr = res[3],
                  !.memo.ipl = <<stage, res[1], res[2], res[3]>>]

\* A test that takes only a negative result for a failure.
IplFailedIfNegative(output_size) == output_size < 0

\* The test of lines 162, 184 and 202.
IplFailed(output_size) == output_size <= 0

\* Lines 147-151.
Ipl1KirkInit(t) ==
    /\ gil = {t}
    /\ frame[t].pc = "ipl1_init"
    /\ IF ~kirk_initialized_ipl1
       THEN KirkInit(t) /\ kirk_initialized_ipl1' = TRUE
       ELSE UNCHANGED <<kirk_init_calls, kirk_init_by, kirk_initialized_ipl1>>
    /\ frame' = [frame EXCEPT ![t].pc = "ipl1_decrypt"]
    /\ UNCHANGED <<kirk_initialized_prx, gil>>

\* Lines 153-160.
Ipl1Decrypt(t) ==
    /\ gil = {t}
    /\ frame[t].pc = "ipl1_decrypt"
    /\ \E res \in IplResults(frame[t], "pspDecryptIPL1") :
          frame' = [frame EXCEPT ![t] =
                       IplStage(frame[t], "pspDecryptIPL1", res, "ipl1_check")]
    /\ UNCHANGED <<kirk_initialized_prx, kirk_initialized_ipl1,
                   kirk_init_calls, kirk_init_by, gil>>

\* Lines 162-170.
Ipl1Return(t) ==
    /\ gil = {t}
    /\ frame[t].pc = "ipl1_check"
    /\ LET f == frame[t]
       IN  frame' = [frame EXCEPT ![t] =
                IF IplFailed(f.output_size) THEN Raise(f, ErrIpl1Failed)
                ELSE LET g == PrintLogIfAny(f)
                     IN  ReturnBytes(g, g.output_size)]
    /\ UNCHANGED <<kirk_initialized_prx, kirk_initialized_ipl1,
                   kirk_init_calls, kirk_init_by, gil>>

\* Lines 175-182.
Ipl2Linearize(t) ==
    /\ gil = {t}
    /\ frame[t].pc = "ipl2_linearize"
    /\ \E res \in IplResults(frame[t], "pspLinearizeIPL2") :
          frame' = [frame EXCEPT ![t] =
                       IplStage(frame[t], "pspLinearizeIPL2", res, "ipl2_check")]
    /\ UNCHANGED <<kirk_initialized_prx, kirk_initialized_ipl1,
                   kirk_init_calls, kirk_init_by, gil>>

\* Lines 184-189.
Ipl2Return(t) ==
    /\ gil = {t}
    /\ frame[t].pc = "ipl2_check"
    /\ LET f == frame[t]
           r == ReturnBytes(f, f.output_size)
       IN  frame' = [frame EXCEPT ![t] =
                IF IplFailed(f.output_size) THEN Raise(f, ErrIpl2Failed)
                ELSE [r EXCEPT !.outcome.kind = "tuple",
                               !.outcome.extra = <<f.start_addr>>]]
    /\ UNCHANGED <<kirk_initialized_prx, kirk_initialized_ipl1,
                   kirk_init_calls, kirk_init_by, gil>>

\* Lines 194-200.
Ipl3Decrypt(t) ==
    /\ gil = {t}
    /\ frame[t].pc = "ipl3_decrypt"
    /\ \E res \in IplResults(frame[t], "pspDecryptIPL3") :
          frame' = [frame EXCEPT ![t] =
                       IplStage(frame[t], "pspDecryptIPL3", res, "ipl3_check")]
    /\ UNCHANGED <<kirk_initialized_prx, kirk_initialized_ipl1,
                   kirk_init_calls, kirk_init_by, gil>>

\* Lines 202-206.
Ipl3Return(t) ==
    /\ gil = {t}
    /\ frame[t].pc = "ipl3_check"
    /\ LET f == frame[t]
       IN  frame' = [frame EXCEPT ![t] =
                IF IplFailed(f.output_size) THEN Raise(f, ErrIpl3Failed)
                ELSE ReturnBytes(f, f.output_size)]
    /\ UNCHANGED <<kirk_initialized_prx, kirk_initialized_ipl1,
                   kirk_init_calls, kirk_init_by, gil>>

---------------------------------------------------------------------------
(* decompress(data, max_size, verbose)                                     *)

\* A capacity that ignores max_size.
OutputCapacityIgnoringMax(max_size, input_size) == U32MulSmall(input_size, 10)

\* Line 223: u32 output_capacity = (max_size > 0) ? max_size : (input_size * 10).
OutputCapacity(max_size, input_size) ==
    IF max_size > 0 THEN IntToU32(max_size) ELSE U32MulSmall(input_size, 10)

\* pspIsCompressed(buf) takes no length and reads the first SNIFF_BYTES bytes.
\* On a shorter buffer it reads past the end, and what it finds there is
\* arbitrary.
SniffResults(f) ==
    IF f.data.len >= SNIFF_BYTES THEN {f.data.magic} ELSE BOOLEAN

\* Lines 211-220.
DecompressSniff(t) ==
    /\ gil = {t}
    /\ frame[t].pc = "dz_sniff"
    /\ \E c \in SniffResults(frame[t]) :
          LET f == Invoke(frame[t], "pspIsCompressed")
              g == [f EXCEPT !.input_size = U32FromNat(f.data.len),
                             !.allocated = @ \cup {"input_buffer"},
                             !.oob_read = f.data.len < SNIFF_BYTES,
                             !.compressed = c]
          IN  frame' = [frame EXCEPT ![t] =
                IF ~c THEN Raise(g, ErrNotCompressed)
                ELSE [g EXCEPT !.pc = "dz_decompress"]]
    /\ UNCHANGED <<kirk_initialized_prx, kirk_initialized_ipl1,
                   kirk_init_calls, kirk_init_by, gil>>

\* Lines 223-228.
DecompressRun(t) ==
    /\ gil = {t}
    /\ frame[t].pc = "dz_decompress"
    /\ LET cap == OutputCapacity(frame[t].max_size, frame[t].input_size)
           key == <<"dz", FALSE, cap>>
       IN  \E res \in DecompressResults(frame[t], key, cap) :
             LET f == Invoke(frame[t], "pspDecompress")
             IN  frame' = [frame EXCEPT ![t] =
                   [f EXCEPT !.pc = "dz_check",
                             !.output_capacity = cap,
                             !.allocated = @ \cup {"output_buffer"},
                             !.buffer = "output_buffer",
                             !.buffer_size = cap,
                             !.output_size = res[1],
                             !.log_empty = res[2],
                             !.memo.dec = <<key, res[1], res[2]>>]]
    /\ UNCHANGED <<kirk_initialized_prx, kirk_initialized_ipl1,
                   kirk_init_calls, kirk_init_by, gil>>

\* Lines 230-238.
DecompressReturn(t) ==
    /\ gil = {t}
    /\ frame[t].pc = "dz_check"
    /\ LET f == frame[t]
       IN  frame' = [frame EXCEPT ![t] =
                IF f.output_size < 0 THEN Raise(f, ErrDecompress)
                ELSE LET g == PrintLogIfAny(f)
                     IN  ReturnBytes(g, g.output_size)]
    /\ UNCHANGED <<kirk_initialized_prx, kirk_initialized_ipl1,
                   kirk_init_calls, kirk_init_by, gil>>

---------------------------------------------------------------------------
(* Calls into the module (PYBIND11_MODULE, lines 242-285).  No binding      *)
(* releases the interpreter lock, so a call runs from entry to return       *)
(* without another thread entering the module.                             *)

FirstPc(entry) ==
    CASE entry = "decrypt_prx"      -> "prx_init"
      [] entry = "decrypt_prx_file" -> "file_open"
      [] entry = "get_prx_info"     -> "info_validate"
      [] entry = "decrypt_ipl1"     -> "ipl1_init"
      [] entry = "linearize_ipl2"   -> "ipl2_linearize"
      [] entry = "decrypt_ipl3"     -> "ipl3_decrypt"
      [] entry = "decompress"       -> "dz_sniff"

\* The argument tuples <<secure_id length, verbose, max_size, file>> an
\* entry point takes; arguments it does not have keep their defaults.
ArgsOf(entry) ==
    CASE entry = "decrypt_prx" ->
            SecureIdLens \X BOOLEAN \X {DEFAULT_MAX_SIZE} \X {"ok"}
      [] entry = "decrypt_prx_file" ->
            SecureIdLens \X BOOLEAN \X {DEFAULT_MAX_SIZE} \X FileStates
      [] entry = "decrypt_ipl1" ->
            {NoSecureId} \X BOOLEAN \X {DEFAULT_MAX_SIZE} \X {"ok"}
      [] entry = "decompress" ->
            {NoSecureId} \X BOOLEAN \X MaxSizes \X {"ok"}
      [] OTHER ->
            {NoSecureId} \X {FALSE} \X {DEFAULT_MAX_SIZE} \X {"ok"}

StartFrame(entry, data, args, memo, prev) ==
    [IdleFrame EXCEPT !.pc = FirstPc(entry), !.entry = entry, !.data = data,
                      !.secure_id_len = args[1], !.verbose = args[2],
                      !.max_size = args[3], !.file = args[4],
                      !.memo = memo, !.prev = prev]

\* A Python thread calls an entry point.
Call(t) ==
    /\ gil = {}
    /\ frame[t].pc = "idle"
    /\ \E entry \in Entries, data \in DataSamples :
         \E args \in ArgsOf(entry) :
            frame' = [frame EXCEPT ![t] =
                         StartFrame(entry, data, args, NoMemo, NoPrev)]
    /\ gil' = {t}
    /\ UNCHANGED <<kirk_initialized_prx, kirk_initialized_ipl1,
                   kirk_init_calls, kirk_init_by>>

\* The call returns (or its exception propagates) to the Python caller.
Return(t) ==
    /\ gil = {t}
    /\ frame[t].pc = "done"
    /\ frame' = [frame EXCEPT ![t] = IdleFrame]
    /\ gil' = {}
    /\ UNCHANGED <<kirk_initialized_prx, kirk_initialized_ipl1,
                   kirk_init_calls, kirk_init_by>>

Summary(f) ==
    [entry |-> f.entry, secure_id_len |-> f.secure_id_len, verbose |-> f.verbose,
     max_size |-> f.max_size, file |-> f.file, compressed |-> f.compressed,
     prims |-> f.prims, outcome |-> f.outcome]

\* The entry points a caller uses on the same bytes as `entry`.
Family(entry) ==
    IF entry \in {"decrypt_prx", "decrypt_prx_file", "get_prx_info"}
    THEN {"decrypt_prx", "decrypt_prx_file", "get_prx_info"}
    ELSE {entry}

\* The caller, having got the result of a call, calls the module again on the
\* same bytes (an entry point of the same family, any other arguments).  The
\* library answers as it did before wherever it is asked the same question
\* (frame.memo).
Recall(t) ==
    /\ gil = {t}
    /\ frame[t].pc = "done"
    /\ frame[t].prev = NoPrev
    /\ \E entry \in Family(frame[t].entry) :
         \E args \in ArgsOf(entry) :
            frame' = [frame EXCEPT ![t] =
                         StartFrame(entry, frame[t].data, args, frame[t].memo,
                                    Summary(frame[t]))]
    /\ UNCHANGED <<kirk_initialized_prx, kirk_initialized_ipl1,
                   kirk_init_calls, kirk_init_by, gil>>

Init ==
    /\ kirk_initialized_prx = FALSE
    /\ kirk_initialized_ipl1 = FALSE
    /\ kirk_init_calls = 0
    /\ kirk_init_by = {}
    /\ gil = {}
    /\ frame = [t \in Threads |-> IdleFrame]

Step(t) ==
    \/ PrxKirkInit(t) \/ PrxValidate(t) \/ PrxSecureId(t) \/ PrxSizes(t)
    \/ PrxDecrypt(t) \/ PrxCheck(t) \/ PrxSniff(t) \/ PrxDecompress(t)
    \/ PrxCompare(t) \/ PrxReturn(t)
    \/ FileOpen(t) \/ FileSize(t) \/ FileRead(t)
    \/ InfoValidate(t) \/ InfoParse(t)
    \/ Ipl1KirkInit(t) \/ Ipl1Decrypt(t) \/ Ipl1Return(t)
    \/ Ipl2Linearize(t) \/ Ipl2Return(t)
    \/ Ipl3Decrypt(t) \/ Ipl3Return(t)
    \/ DecompressSniff(t) \/ DecompressRun(t) \/ DecompressReturn(t)

Next == \E t \in Threads : Call(t) \/ Step(t) \/ Return(t)

Spec == Init /\ [][Next]_vars

\* The same program driven by one caller thread, which may call twice on the
\* same bytes.
Caller == CHOOSE t \in Threads : \A u \in Threads : t <= u

NextPair == Call(Caller) \/ Step(Caller) \/ Return(Caller) \/ Recall(Caller)

SpecPair == Init /\ [][NextPair]_vars

---------------------------------------------------------------------------
(* The PSAR walker: a walk over an archive's table of contents that drives  *)
(* the decrypters above once per entry.                                     *)

MaxEntries == 3

EntryNames == {"a", "b"}
EntryKinds == {"prx", "ipl", "plain"}

\* A table-of-contents entry: its declared name, its type flag, and whether
\* its data is corrupted, so that decrypting or decompressing it fails.  A
\* plain entry is copied verbatim and has nothing that can fail.
TocEntries ==
    { e \in [name : EntryNames, kind : EntryKinds, corrupt : BOOLEAN] :
        e.kind = "plain" => ~e.corrupt }

RECURSIVE TablesOfLen(_)
TablesOfLen(n) ==
    IF n = 0 THEN { <<>> }
    ELSE { Append(tbl, e) : tbl \in TablesOfLen(n - 1), e \in TocEntries }

PsarTables == UNION { TablesOfLen(n) : n \in 0..MaxEntries }

\* What extracting one entry gives: its bytes, or the error of the decrypter
\* or decoder its type flag selects.
EntryResult(e) ==
    [name |-> e.name, status |-> IF e.corrupt THEN "error" ELSE "bytes"]

\* A caller hands an archive to the walker.
PsarCall(t) ==
    /\ gil = {}
    /\ frame[t].pc = "idle"
    /\ \E tbl \in PsarTables :
          frame' = [frame EXCEPT ![t] =
                       [IdleFrame EXCEPT !.pc = "psar_header",
                                         !.entry = "extract_psar",
                                         !.table = tbl]]
    /\ gil' = {t}
    /\ UNCHANGED <<kirk_initialized_prx, kirk_initialized_ipl1,
                   kirk_init_calls, kirk_init_by>>

\* Step 1: parse the archive header (entry count, table offset).
PsarHeader(t) ==
    /\ gil = {t}
    /\ frame[t].pc = "psar_header"
    /\ frame' = [frame EXCEPT ![t].pc = "psar_entry"]
    /\ UNCHANGED <<kirk_initialized_prx, kirk_initialized_ipl1,
                   kirk_init_calls, kirk_init_by, gil>>

\* A walk that gives up at the first entry that fails.
PsarEntryAbortingOnError(t) ==
    /\ gil = {t}
    /\ frame[t].pc = "psar_entry"
    /\ LET f == frame[t]
           k == Len(f.results) + 1
       IN  frame' = [frame EXCEPT ![t] =
                IF k > Len(f.table)
                THEN [f EXCEPT !.pc = "done",
                               !.outcome = [NoOutcome EXCEPT !.kind = "report",
                                                             !.extra = f.results]]
                ELSE IF f.table[k].corrupt THEN Raise(f, ErrPrxFailed)
                ELSE [f EXCEPT !.results = Append(@, EntryResult(f.table[k]))]]
    /\ UNCHANGED <<kirk_initialized_prx, kirk_initialized_ipl1,
                   kirk_init_calls, kirk_init_by, gil>>

\* Steps 2-4: the next entry in table order is extracted and its result,
\* bytes or error, recorded under its declared name; after the last entry
\* the walk returns the per-entry report.
PsarEntry(t) ==
    /\ gil = {t}
    /\ frame[t].pc = "psar_entry"
    /\ LET f == frame[t]
           k == Len(f.results) + 1
       IN  frame' = [frame EXCEPT ![t] =
                IF k > Len(f.table)
                THEN [f EXCEPT !.pc = "done",
                               !.outcome = [NoOutcome EXCEPT !.kind = "report",
                                                             !.extra = f.results]]
                ELSE [f EXCEPT !.results = Append(@, EntryResult(f.table[k]))]]
    /\ UNCHANGED <<kirk_initialized_prx, kirk_initialized_ipl1,
                   kirk_init_calls, kirk_init_by, gil>>

NextPsar ==
    \E t \in Threads : PsarCall(t) \/ PsarHeader(t) \/ PsarEntry(t) \/ Return(t)

SpecPsar == Init /\ [][NextPsar]_vars

---------------------------------------------------------------------------
(* Properties.                                                             *)

Invoked(f, p) == \E i \in DOMAIN f.prims : f.prims[i] = p

Returned(f) == f.pc = "done" /\ f.outcome.kind \in {"bytes", "tuple", "dict"}
Failed(f) == f.pc = "done" /\ f.outcome.kind = "error"
FailedWith(f, e) == Failed(f) /\ f.outcome.err = e

PrxEntries == {"decrypt_prx", "decrypt_prx_file", "get_prx_info"}

\* C1: on an input shorter than PSP_HEADER_SIZE, decrypt_prx,
\* decrypt_prx_file (once it has read the file) and get_prx_info read no
\* header field, allocate no output buffer and never invoke pspDecryptPRX,
\* and they end with the too-small error.
C1_TooSmallBeforeAnything ==
    \A t \in Threads :
       LET f == frame[t]
       IN  (f.entry \in PrxEntries /\ f.data.len < PSP_HEADER_SIZE) =>
              /\ f.fields_read = {}
              /\ "output_buffer" \notin f.allocated
              /\ ~Invoked(f, "pspDecryptPRX")
              /\ (f.pc = "done" /\ f.file = "ok" => FailedWith(f, ErrTooSmall))

\* A file one byte short of a header, read in full, with a secure ID of the
\* wrong length: the call has ended with the too-small error.
C1_Witness ==
    \E t \in Threads :
       /\ frame[t].entry = "decrypt_prx_file"
       /\ frame[t].file_reads = 1
       /\ frame[t].data.len = PSP_HEADER_SIZE - 1
       /\ frame[t].secure_id_len # NoSecureId
       /\ FailedWith(frame[t], ErrTooSmall)

\* C2: on an input shorter than the header size, decrypt_ipl1,
\* linearize_ipl2, decrypt_ipl3 and decompress end with the too-small error
\* and read no byte at or past the input's length.
C2_OthersTooSmall ==
    \A t \in Threads :
       LET f == frame[t]
       IN  (f.entry \in Entries \ PrxEntries /\ f.data.len < PSP_HEADER_SIZE) =>
              /\ ~f.oob_read
              /\ (f.pc = "done" => FailedWith(f, ErrTooSmall))

\* C3: at most one thread ever runs kirk_init, and pspDecryptPRX and
\* pspDecryptIPL1 are invoked only once kirk_init has completed.
C3_SingleWinner ==
    /\ Cardinality(kirk_init_by) <= 1
    /\ \A t \in Threads :
          \A i \in DOMAIN frame[t].prims :
             frame[t].prims[i] \in {"pspDecryptPRX", "pspDecryptIPL1"}
                => frame[t].kirk_ready[i]

\* C4: kirk_init runs at most once in the life of the process.
C4_InitAtMostOnce == kirk_init_calls <= 1

\* C5: pspDecryptPRX, pspDecryptIPL1 and pspDecryptIPL3 are invoked only
\* after kirk_init has completed.
C5_InitBeforeDecrypt ==
    \A t \in Threads :
       \A i \in DOMAIN frame[t].prims :
          frame[t].prims[i] \in {"pspDecryptPRX", "pspDecryptIPL1", "pspDecryptIPL3"}
             => frame[t].kirk_ready[i]

\* C6 as stated: for every max_size, the capacity decompress hands to the
\* decoder is at most max_size, and so is the length of the bytes it returns.
C6_CapWithinMaxSize ==
    \A t \in Threads :
       LET f == frame[t]
       IN  (f.entry = "decompress" /\ Invoked(f, "pspDecompress")) =>
              /\ FitsInt(f.output_capacity)
              /\ U32ToNat(f.output_capacity) <= f.max_size
              /\ (Returned(f) => f.outcome.len <= f.max_size)

\* C6, amended: for a positive max_size the capacity handed to the decoder is
\* max_size and the returned bytes are no longer than max_size; for
\* max_size <= 0 the capacity is ten times the input length (where that
\* stays below 2^32) and the returned bytes are no longer than that capacity.
C6_CapWithinPositiveMaxSize ==
    \A t \in Threads :
       LET f == frame[t]
       IN  (f.entry = "decompress" /\ Invoked(f, "pspDecompress")) =>
              /\ f.max_size > 0 =>
                    /\ f.output_capacity = U32FromNat(f.max_size)
                    /\ (Returned(f) => f.outcome.len <= f.max_size)
              /\ f.max_size <= 0 =>
                    /\ (f.data.len < HugeLen =>
                           f.output_capacity = U32FromNat(10 * f.data.len))
                    /\ (Returned(f) =>
                           U32Leq(U32FromNat(f.outcome.len), f.output_capacity))

\* decompress has returned max_size bytes for a positive max_size.
C6_Witness ==
    \E t \in Threads :
       /\ frame[t].entry = "decompress"
       /\ frame[t].max_size > 0
       /\ Returned(frame[t])
       /\ frame[t].outcome.len = frame[t].max_size

\* C7: the output buffer decrypt_prx allocates holds at least
\* max(psp_size, elf_size) bytes and a whole number of 16-byte blocks.
C7_CapacityCoversHeaderSizes ==
    \A t \in Threads :
       LET f == frame[t]
       IN  (f.entry \in {"decrypt_prx", "decrypt_prx_file"}
              /\ "output_buffer" \in f.allocated) =>
              /\ U32Leq(f.psp_size, f.output_capacity)
              /\ U32Leq(f.elf_size, f.output_capacity)
              /\ U32Mod16(f.output_capacity) = 0

\* C8: when pspDecryptPRX returned a negative or a zero result, decrypt_prx
\* ends with the decryption-failed error.
C8_NonPositiveIsFailure ==
    \A t \in Threads :
       LET f == frame[t]
       IN  (f.pc = "done" /\ Invoked(f, "pspDecryptPRX") /\ f.memo.prx[2] <= 0) =>
              FailedWith(f, ErrPrxFailed)

\* C9: when decrypt_prx found the decrypted buffer compressed, the decoder was
\* given a capacity of elf_size; the call then returns elf_size decompressed
\* bytes if the decoder produced exactly elf_size bytes, and otherwise
\* returns, without failing, the decrypted bytes in the length pspDecryptPRX
\* reported.
C9_DecompressOrKeep ==
    \A t \in Threads :
       LET f == frame[t]
           exact == f.decompressed_size >= 0
                    /\ U32FromNat(f.decompressed_size) = f.elf_size
       IN  (f.pc = "done" /\ f.entry \in {"decrypt_prx", "decrypt_prx_file"}
              /\ Invoked(f, "pspDecompress")) =>
              /\ f.memo.dec[1][3] = f.elf_size
              /\ Returned(f)
              /\ exact => /\ f.outcome.buf = "temp_buffer"
                          /\ U32FromNat(f.outcome.len) = f.elf_size
              /\ ~exact => /\ f.outcome.buf = "output_buffer"
                           /\ f.outcome.len = f.memo.prx[2]

\* C10: decrypt_prx, decrypt_ipl1 and decompress called twice on the same
\* bytes with the same arguments but for verbose, the library answering the
\* same both times, end the same way: the same bytes or the same error.
C10_VerboseChangesNothing ==
    \A t \in Threads :
       LET f == frame[t]
       IN  (/\ f.pc = "done"
            /\ f.entry \in {"decrypt_prx", "decrypt_ipl1", "decompress"}
            /\ f.prev.entry = f.entry
            /\ f.prev.secure_id_len = f.secure_id_len
            /\ f.prev.max_size = f.max_size
            /\ f.prev.compressed = f.compressed
            /\ f.prev.verbose # f.verbose)
           => f.outcome = f.prev.outcome

\* C11 as stated: decrypt_prx given a secure ID that is not 16 bytes long
\* never invokes pspDecryptPRX and ends with the secure-ID error; given 16
\* bytes it hands pspDecryptPRX a pointer to them, and given none it hands
\* it a null pointer.
C11_SecureIdLength ==
    \A t \in Threads :
       LET f == frame[t]
       IN  f.entry = "decrypt_prx" =>
              /\ f.secure_id_len \notin {NoSecureId, SECURE_ID_SIZE} =>
                    /\ ~Invoked(f, "pspDecryptPRX")
                    /\ (f.pc = "done" => FailedWith(f, ErrSecureId))
              /\ Invoked(f, "pspDecryptPRX") =>
                    f.memo.prx[1] = (f.secure_id_len = SECURE_ID_SIZE)

\* C11, amended: decrypt_prx given a secure ID that is not 16 bytes long
\* never invokes pspDecryptPRX; it ends with the secure-ID error when the
\* input holds a whole header and with the too-small error when it does not.
\* Given 16 bytes it hands pspDecryptPRX a pointer to them, and given none it
\* hands it a null pointer.
C11_SecureIdLengthAfterSize ==
    \A t \in Threads :
       LET f == frame[t]
       IN  f.entry = "decrypt_prx" =>
              /\ f.secure_id_len \notin {NoSecureId, SECURE_ID_SIZE} =>
                    /\ ~Invoked(f, "pspDecryptPRX")
                    /\ (f.pc = "done" /\ f.data.len >= PSP_HEADER_SIZE =>
                           FailedWith(f, ErrSecureId))
                    /\ (f.pc = "done" /\ f.data.len < PSP_HEADER_SIZE =>
                           FailedWith(f, ErrTooSmall))
              /\ Invoked(f, "pspDecryptPRX") =>
                    f.memo.prx[1] = (f.secure_id_len = SECURE_ID_SIZE)

\* decrypt_prx on a whole header with a 15-byte secure ID has ended with the
\* secure-ID error.
C11_Witness ==
    \E t \in Threads :
       /\ frame[t].entry = "decrypt_prx"
       /\ frame[t].data.len >= PSP_HEADER_SIZE
       /\ frame[t].secure_id_len = SECURE_ID_SIZE - 1
       /\ FailedWith(frame[t], ErrSecureId)

\* What get_prx_info has done and returned so far, in the frame of thread t.
InfoIsParseOnly(t) ==
    LET f == frame[t]
    IN  f.entry = "get_prx_info" =>
           /\ f.allocated = {}
           /\ \A i \in DOMAIN f.prims : f.prims[i] = "pspIsCompressed"
           /\ (f.pc = "done" /\ f.data.len >= PSP_HEADER_SIZE =>
                  f.outcome.kind = "dict")
           /\ (f.pc = "done" /\ f.prev.entry = "get_prx_info" =>
                  f.outcome = f.prev.outcome)

\* C12: get_prx_info on an input of at least PSP_HEADER_SIZE bytes returns
\* its dictionary; it invokes no decryption primitive, allocates no buffer,
\* and no step of it changes the input or the process-wide KIRK state; called
\* twice on the same bytes it returns the same dictionary.
C12_InfoIsPureParse ==
    [][\A t \in Threads :
          /\ InfoIsParseOnly(t)'
          /\ (gil = {t} /\ frame[t].entry = "get_prx_info"
                 /\ frame[t].pc # "done") =>
                 /\ frame'[t].data = frame[t].data
                 /\ UNCHANGED <<kirk_initialized_prx, kirk_initialized_ipl1,
                                kirk_init_calls, kirk_init_by>>]_vars

\* get_prx_info has returned its dictionary for the second time on the same
\* whole header, and KIRK has never been initialized.
C12_Witness ==
    \E t \in Threads :
       /\ frame[t].entry = "get_prx_info"
       /\ frame[t].prev.entry = "get_prx_info"
       /\ frame[t].data.len >= PSP_HEADER_SIZE
       /\ frame[t].outcome.kind = "dict"
       /\ kirk_init_calls = 0

\* C13: when get_prx_info and then decrypt_prx are called on the same whole
\* header and pspDecryptPRX succeeds, the is_compressed that get_prx_info
\* returned is TRUE exactly when decrypt_prx went on to invoke pspDecompress.
C13_IsCompressedMatchesDecrypt ==
    \A t \in Threads :
       LET f == frame[t]
       IN  (/\ f.pc = "done"
            /\ f.entry = "decrypt_prx"
            /\ f.prev.entry = "get_prx_info"
            /\ f.prev.outcome.kind = "dict"
            /\ Invoked(f, "pspDecryptPRX")
            /\ ~PrxFailed(f.memo.prx[2]))
           => (f.prev.outcome.extra[3] <=> Invoked(f, "pspDecompress"))

\* C14: when the tag of a whole header has no key-table entry, decrypt_prx
\* returns no bytes and ends with an error of its own, which is not the error
\* it raises for a decryption that failed for another reason.
C14_UnknownTagIsItsOwnError ==
    \A t \in Threads :
       LET f == frame[t]
       IN  (/\ f.pc = "done"
            /\ f.entry = "decrypt_prx"
            /\ Invoked(f, "pspDecryptPRX")
            /\ f.memo.prx[4] = "UnknownTag")
           => /\ Failed(f)
              /\ f.outcome.err \notin {ErrPrxFailed, ErrSecureId, ErrTooSmall}

\* The primitives that decrypt, decompress or linearize.
WorkPrimitives ==
    {"pspDecryptPRX", "pspDecompress", "pspDecryptIPL1", "pspLinearizeIPL2",
     "pspDecryptIPL3"}

Invocations(f, p) == Cardinality({ i \in DOMAIN f.prims : f.prims[i] = p })

LastInvoked(f) == IF f.prims = <<>> THEN "none" ELSE f.prims[Len(f.prims)]

\* C15: within one call each of pspDecryptPRX, pspDecompress,
\* pspDecryptIPL1, pspLinearizeIPL2 and pspDecryptIPL3 is invoked at most
\* once, and once one of them has reported a failure the call invokes nothing
\* more.
C15_NoRetry ==
    \A t \in Threads :
       LET f == frame[t]
       IN  /\ \A p \in WorkPrimitives : Invocations(f, p) <= 1
           /\ (Invoked(f, "pspDecryptPRX") /\ f.memo.prx[2] < 0) =>
                 LastInvoked(f) = "pspDecryptPRX"
           /\ (Invoked(f, "pspDecompress") /\ f.memo.dec[2] < 0) =>
                 LastInvoked(f) = "pspDecompress"
           /\ \A p \in {"pspDecryptIPL1", "pspLinearizeIPL2", "pspDecryptIPL3"} :
                 (Invoked(f, p) /\ f.memo.ipl[2] <= 0) => LastInvoked(f) = p

\* decrypt_prx has ended with the decryption-failed error after its one call
\* of pspDecryptPRX reported a failure.
C15_Witness ==
    \E t \in Threads :
       /\ FailedWith(frame[t], ErrPrxFailed)
       /\ frame[t].memo.prx[2] < 0
       /\ Invocations(frame[t], "pspDecryptPRX") = 1

\* The steps of decrypt_prx_file that come before its call of decrypt_prx.
FilePcs == {"file_open", "file_size", "file_read"}

\* The error decrypt_prx_file raises for a file in state `file`.
FileError(file) ==
    CASE file = "no_open"    -> ErrOpen
      [] file = "no_size"    -> ErrFileSize
      [] file = "short_read" -> ErrRead

\* C16: decrypt_prx_file opens the file at most once and reads it at most
\* once.  When the file cannot be opened, sized or read in full, the call
\* never enters decrypt_prx and ends with the matching file error.  When the
\* file is read in full, the call has opened and read it exactly once and ends
\* exactly as decrypt_prx does on the same bytes with the same secure_id and
\* verbose.
C16_FileIsDecryptPrxOnContents ==
    \A t \in Threads :
       LET f == frame[t]
       IN  f.entry = "decrypt_prx_file" =>
              /\ f.file_opens <= 1 /\ f.file_reads <= 1
              /\ f.file # "ok" =>
                    /\ f.pc \in FilePcs \cup {"done"}
                    /\ f.prims = <<>> /\ f.fields_read = {}
                    /\ (f.pc = "done" => FailedWith(f, FileError(f.file)))
              /\ (f.file = "ok" /\ f.pc \notin FilePcs) =>
                    f.file_opens = 1 /\ f.file_reads = 1
              /\ (/\ f.file = "ok" /\ f.pc = "done"
                  /\ f.prev.entry = "decrypt_prx"
                  /\ f.prev.secure_id_len = f.secure_id_len
                  /\ f.prev.verbose = f.verbose) =>
                    /\ f.outcome = f.prev.outcome
                    /\ f.prims = f.prev.prims

\* decrypt_prx_file has read a file once and returned the bytes decrypt_prx
\* returned before on the same contents.
C16_Witness ==
    \E t \in Threads :
       /\ frame[t].entry = "decrypt_prx_file"
       /\ frame[t].prev.entry = "decrypt_prx"
       /\ frame[t].prev.secure_id_len = frame[t].secure_id_len
       /\ frame[t].prev.verbose = frame[t].verbose
       /\ frame[t].file_reads = 1
       /\ Returned(frame[t])
       /\ frame[t].outcome.len > 0

\* C17: a walk over an archive of N entries ends with N per-entry results in
\* table order, each under its entry's declared name; the result of a
\* corrupted entry is an error and that of every other entry is its bytes,
\* whatever the other entries are.
C17_PartialExtraction ==
    \A t \in Threads :
       LET f == frame[t]
       IN  f.entry = "extract_psar" =>
              /\ Len(f.results) <= Len(f.table)
              /\ \A i \in DOMAIN f.results :
                    /\ f.results[i].name = f.table[i].name
                    /\ f.results[i].status = "error" <=> f.table[i].corrupt
                    /\ f.results[i].status = "bytes" <=> ~f.table[i].corrupt
              /\ f.pc = "done" =>
                    /\ f.outcome.kind = "report"
                    /\ f.outcome.extra = f.results
                    /\ Len(f.results) = Len(f.table)

\* A walk over MaxEntries entries has ended: the second entry carries an error
\* and every other entry its bytes.
C17_Witness ==
    \E t \in Threads :
       LET f == frame[t]
       IN  /\ f.entry = "extract_psar"
           /\ f.pc = "done"
           /\ Len(f.outcome.extra) = MaxEntries
           /\ \A i \in DOMAIN f.outcome.extra :
                 f.outcome.extra[i].status = "error" <=> i = 2

\* The place of each step of decrypt_prx in the order of lines 26-90.
PrxStepOrder ==
    <<"prx_init", "prx_validate", "prx_secure_id", "prx_sizes", "prx_decrypt",
      "prx_check", "prx_sniff", "prx_decompress", "prx_compare", "prx_return",
      "done">>

PrxStepRank(pc) == CHOOSE i \in DOMAIN PrxStepOrder : PrxStepOrder[i] = pc

\* What decrypt_prx has established by the time it calls each primitive.
PrxStepsInOrder(t) ==
    LET f == frame[t]
    IN  f.entry = "decrypt_prx" =>
           /\ "output_buffer" \in f.allocated =>
                 /\ ~TooSmall(U32FromNat(f.data.len))
                 /\ f.secure_id_len \in {NoSecureId, SECURE_ID_SIZE}
           /\ Invoked(f, "pspDecryptPRX") =>
                 /\ ~TooSmall(U32FromNat(f.data.len))
                 /\ f.secure_id_len \in {NoSecureId, SECURE_ID_SIZE}
                 /\ "output_buffer" \in f.allocated
                 /\ f.prims[1] = "pspDecryptPRX"
           /\ Invoked(f, "pspIsCompressed") =>
                 /\ Len(f.prims) >= 2
                 /\ f.prims[1] = "pspDecryptPRX" /\ f.prims[2] = "pspIsCompressed"
                 /\ f.memo.prx[2] >= SNIFF_BYTES
           /\ Invoked(f, "pspDecompress") =>
                 /\ f.prims = <<"pspDecryptPRX", "pspIsCompressed", "pspDecompress">>
                 /\ f.memo.prx[2] >= SNIFF_BYTES
                 /\ f.compressed

\* C18: every step of a decrypt_prx call moves it forward in the order size
\* validation, secure-ID validation, header sizes and allocation,
\* pspDecryptPRX, sniff, pspDecompress, return; no step is taken twice.
\* pspDecryptPRX is invoked only after both validations passed, and
\* pspDecompress only after pspDecryptPRX returned at least 4 bytes and the
\* sniff recognized the decrypted buffer.
C18_LinearSteps ==
    [][\A t \in Threads :
          /\ PrxStepsInOrder(t)'
          /\ (frame[t].entry = "decrypt_prx" /\ frame'[t].entry = "decrypt_prx"
                 /\ frame'[t] # frame[t]) =>
                 PrxStepRank(frame'[t].pc) > PrxStepRank(frame[t].pc)]_vars

\* decrypt_prx has returned after pspDecryptPRX, the sniff and pspDecompress,
\* in that order.
C18_Witness ==
    \E t \in Threads :
       /\ frame[t].entry = "decrypt_prx"
       /\ Returned(frame[t])
       /\ frame[t].prims = <<"pspDecryptPRX", "pspIsCompressed", "pspDecompress">>

\* C19: decompress on an input whose leading bytes are no compression magic
\* allocates no output buffer, never invokes pspDecompress and ends with the
\* not-compressed error; whatever the input, the sniff and the decoder are
\* given the call's own copy of it.
C19_NotCompressedRejected ==
    \A t \in Threads :
       LET f == frame[t]
       IN  f.entry = "decompress" =>
              /\ ~f.data.magic =>
                    /\ "output_buffer" \notin f.allocated
                    /\ ~Invoked(f, "pspDecompress")
                    /\ (f.pc = "done" => FailedWith(f, ErrNotCompressed))
              /\ f.prims # <<>> => "input_buffer" \in f.allocated

IplEntries == {"decrypt_ipl1", "linearize_ipl2", "decrypt_ipl3"}

\* The primitive and the error of each IPL stage wrapper.
StageOf(entry) ==
    CASE entry = "decrypt_ipl1"   -> "pspDecryptIPL1"
      [] entry = "linearize_ipl2" -> "pspLinearizeIPL2"
      [] entry = "decrypt_ipl3"   -> "pspDecryptIPL3"

StageError(entry) ==
    CASE entry = "decrypt_ipl1"   -> ErrIpl1Failed
      [] entry = "linearize_ipl2" -> ErrIpl2Failed
      [] entry = "decrypt_ipl3"   -> ErrIpl3Failed

\* C20: a call of decrypt_ipl1, linearize_ipl2 or decrypt_ipl3 invokes its
\* own stage primitive and no other.  It ends with its stage's error exactly
\* when the primitive returned a value <= 0; otherwise it returns the first
\* output_size bytes of the output buffer, output_size being the primitive's
\* result, and linearize_ipl2 returns the start address with them.
C20_IplStageFailsIffNonPositive ==
    \A t \in Threads :
       LET f == frame[t]
           ret == f.memo.ipl[2]
       IN  (f.entry \in IplEntries /\ f.pc = "done") =>
              /\ f.prims = <<StageOf(f.entry)>>
              /\ Failed(f) <=> ret <= 0
              /\ ret <= 0 => FailedWith(f, StageError(f.entry))
              /\ ret > 0 =>
                    /\ f.outcome.len = ret
                    /\ f.outcome.buf = "output_buffer"
                    /\ f.outcome.kind =
                          (IF f.entry = "linearize_ipl2" THEN "tuple" ELSE "bytes")
                    /\ f.outcome.extra =
                          (IF f.entry = "linearize_ipl2" THEN <<f.memo.ipl[4]>>
                                                         ELSE <<>>)

\* linearize_ipl2, called on its own, has returned an image shorter than its
\* input together with a start address that is not zero.
C20_Witness ==
    \E t \in Threads :
       /\ frame[t].entry = "linearize_ipl2"
       /\ Returned(frame[t])
       /\ frame[t].outcome.len > 0
       /\ frame[t].outcome.len < frame[t].data.len
       /\ frame[t].outcome.extra # <<0>>
       /\ kirk_init_calls = 0

\* Ten times a length below 2^31, as the pair <<high part, low 16 bits>> of
\* the exact product: the high part is above 65535 when the product is not
\* below 2^32.
TenTimes(len) ==
    LET lo == 10 * (len % Half)
    IN  <<10 * (len \div Half) + lo \div Half, lo % Half>>

\* C21: the output capacity decompress hands to pspDecompress is exactly
\* max_size when max_size is positive and exactly ten times the input length
\* when it is not.
C21_CapacityIsTenTimesInput ==
    \A t \in Threads :
       LET f == frame[t]
       IN  (f.entry = "decompress" /\ Invoked(f, "pspDecompress")) =>
              /\ f.max_size > 0 => f.output_capacity = U32FromNat(f.max_size)
              /\ f.max_size <= 0 => f.output_capacity = TenTimes(f.data.len)

\* C22: the bytes an entry point returns are no more than the buffer they are
\* copied from holds: output_capacity (elf_size once the decompressed image
\* has replaced the decrypted one) in decrypt_prx, input_size in the IPL
\* wrappers, output_capacity in decompress.
C22_ReturnedWithinBuffer ==
    \A t \in Threads :
       LET f == frame[t]
       IN  (Returned(f) /\ f.outcome.kind \in {"bytes", "tuple"}) =>
              /\ U32Leq(U32FromNat(f.outcome.len), f.buffer_size)
              /\ f.buffer_size =
                    (CASE f.entry \in {"decrypt_prx", "decrypt_prx_file"} ->
                            IF f.outcome.buf = "temp_buffer" THEN f.elf_size
                            ELSE f.output_capacity
                       [] f.entry = "decompress" -> f.output_capacity
                       [] OTHER -> f.input_size)

\* C23: in decrypt_prx the decompressed image replaces the decrypted one only
\* when pspDecompress reported a byte count that is not negative and equals
\* elf_size, and the length the returned bytes are built with is never
\* negative.
C23_NegativeNeverAccepted ==
    \A t \in Threads :
       LET f == frame[t]
       IN  (f.entry \in {"decrypt_prx", "decrypt_prx_file"}
              /\ Invoked(f, "pspDecompress")) =>
              /\ f.buffer = "temp_buffer" =>
                    /\ f.decompressed_size >= 0
                    /\ U32FromNat(f.decompressed_size) = f.elf_size
              /\ f.output_size >= 0
              /\ ~FailedWith(f, ErrBytes)

============================================================================
